---- MODULE Spec2Model ----
(***************************************************************************)
(* Model of src/3.py: the contact crawler.  A button press runs            *)
(* fetch_and_display, which GETs the page (fetch_html), GETs it a second   *)
(* time and scans it for e-mail addresses (fetch_emails_from_ncut), cuts   *)
(* the first text into teacher blocks and pairs them positionally with the *)
(* addresses (extract_contacts), INSERTs OR IGNOREs the result into the    *)
(* contacts table (save_to_database) and shows it (display_contacts).      *)
(*                                                                         *)
(* Page text is a sequence of tokens.  Each token stands for one piece of  *)
(* text the regular expressions of the source tell apart:                  *)
(*   "a" "b"  a character of the class [a-zA-Z0-9._%+-]                    *)
(*   "n"      the literal ncut.edu.tw (made of characters of that class)   *)
(*   "@"      the at sign                                                  *)
(*   " "      white space (\s)                                             *)
(*   "T"      <div class="teacher-list">                                   *)
(*   "/"      </div>                                                       *)
(*   "N"      <div class="member_name">                                    *)
(*   "<"      an opening link tag, <a[^>]*>                                *)
(*   ">"      </a>                                                         *)
(*   "I"      <div class="member_info_title">                              *)
(*   "J"      the title label the pattern of line 94 looks for             *)
(*   "C"      <div class="member_info_content">                            *)
(* The empty sequence is the empty string.  The sentinel the source uses   *)
(* for a missing field (line 91, 95, 98) is written Unknown.               *)
(*                                                                         *)
(* Out of the model: a fault of the storage layer itself (sqlite3.Error    *)
(* from a locked or unwritable file); every INSERT reaches the table.      *)
(***************************************************************************)
EXTENDS Integers, Sequences, FiniteSets, TLC

VARIABLES
    url_entry,   \* text of the URL entry widget
    store,       \* rows of table contacts, in insertion order
    sqlite_sequence, \* last AUTOINCREMENT value handed out for contacts
    tree,        \* rows shown by the Treeview
    messagebox,  \* error dialog shown by the last handler run, or "none"
    stdout,      \* line printed by the last handler run, or "none"
    resp1,       \* response to the GET of fetch_html in the last run
    resp2,       \* response to the GET of fetch_emails_from_ncut in the last run
    html,        \* local html of fetch_and_display / argument of extract_contacts
    emails,      \* local emails of fetch_and_display / argument of extract_contacts
    contacts,    \* local contacts of fetch_and_display / result of extract_contacts
    before,      \* history: the table as it was when the last run began
    repeat,      \* history: the last run got the very responses of the run before it
    pc           \* "mainloop" in the application; "call"/"return" around one function

vars == <<url_entry, store, sqlite_sequence, tree, messagebox, stdout, resp1, resp2, html,
          emails, contacts, before, repeat, pc>>

-----------------------------------------------------------------------------
(* Text helpers                                                            *)

Unknown == <<"unknown">>

Range(s) == {s[i] : i \in 1..Len(s)}

Min(S) == CHOOSE x \in S : \A y \in S : x <= y

\* the class [a-zA-Z0-9._%+-] of line 62
IsLocal(c) == c \in {"a", "b", "n"}

\* the class \s of lines 86 and 94
IsSpace(c) == c = " "

\* first index >= pos holding tok, 0 when there is none
First(t, tok, pos) ==
    LET S == {i \in pos..Len(t) : t[i] = tok}
    IN  IF pos < 1 \/ S = {} THEN 0 ELSE Min(S)

\* first index >= pos not holding white space (Len(t)+1 when there is none)
SkipSpace(t, pos) ==
    Min({i \in pos..(Len(t) + 1) : i = Len(t) + 1 \/ ~IsSpace(t[i])})

\* last index of the longest run of local-part characters that starts at pos
RunEnd(t, pos) ==
    Min({i \in pos..Len(t) : i = Len(t) \/ ~IsLocal(t[i + 1])})

\* str.strip()
RECURSIVE strip(_)
strip(s) ==
    IF s = <<>> THEN s
    ELSE IF IsSpace(s[1]) THEN strip(Tail(s))
    ELSE IF IsSpace(s[Len(s)]) THEN strip(SubSeq(s, 1, Len(s) - 1))
    ELSE s

\* code point of a character that can occur in a matched address
Ord(c) ==
    CASE c = "@" -> 64
      [] c = "a" -> 97
      [] c = "b" -> 98
      [] c = "n" -> 110
      [] OTHER -> 0

\* s < t for Python strings
RECURSIVE LexLess(_, _)
LexLess(s, t) ==
    IF t = <<>> THEN FALSE
    ELSE IF s = <<>> THEN TRUE
    ELSE IF s[1] = t[1] THEN LexLess(Tail(s), Tail(t))
    ELSE Ord(s[1]) < Ord(t[1])

\* sorted(S) for a set S of strings
RECURSIVE sorted(_)
sorted(S) ==
    IF S = {} THEN <<>>
    ELSE LET m == CHOOSE x \in S : \A y \in S \ {x} : LexLess(x, y)
         IN  <<m>> \o sorted(S \ {m})

-----------------------------------------------------------------------------
(* fetch_emails_from_ncut                                                  *)

\* re.findall(r'[a-zA-Z0-9._%+-]+@ncut\.edu\.tw', content) from index pos on:
\* leftmost matches, greedy local part, never overlapping
RECURSIVE findall_emails(_, _)
findall_emails(t, pos) ==
    IF pos > Len(t) THEN <<>>
    ELSE IF ~IsLocal(t[pos]) THEN findall_emails(t, pos + 1)
    ELSE LET e == RunEnd(t, pos)
         IN  IF e + 2 <= Len(t) /\ t[e + 1] = "@" /\ t[e + 2] = "n"
             THEN <<SubSeq(t, pos, e + 2)>> \o findall_emails(t, e + 3)
             ELSE findall_emails(t, pos + 1)

\* set(emails)
set(s) == Range(s)

\* a slip: the raw list of matches is returned, neither deduplicated nor sorted
fetch_emails_raw(resp) ==
    IF resp.status = "ok" THEN findall_emails(resp.text, 1) ELSE <<>>

\* the value returned for one response of requests.get
fetch_emails_from_ncut(resp) ==
    IF resp.status = "ok"
    THEN sorted(set(findall_emails(resp.text, 1)))
    ELSE <<>>

-----------------------------------------------------------------------------
(* extract_contacts                                                        *)

\* end of the match of  </div>\s*</div>  that starts at d, 0 when none starts there
BlockClose(t, d) ==
    IF d < 1 \/ d > Len(t) \/ t[d] # "/" THEN 0
    ELSE LET e == SkipSpace(t, d + 1)
         IN  IF e <= Len(t) /\ t[e] = "/" THEN e ELSE 0

\* re.findall(r'<div class="teacher-list">.*?</div>\s*</div>', html, re.DOTALL)
RECURSIVE teacher_blocks(_, _)
teacher_blocks(t, pos) ==
    LET p  == First(t, "T", pos)
        Ds == IF p = 0 THEN {} ELSE {d \in (p + 1)..Len(t) : BlockClose(t, d) # 0}
    IN  IF Ds = {} THEN <<>>
        ELSE LET e == BlockClose(t, Min(Ds))
             IN  <<SubSeq(t, p, e)>> \o teacher_blocks(t, e + 1)

\* re.search(r'<div class="member_name">.*?<a[^>]*>(.*?)</a>', block): group 1
\* stripped, or the sentinel
name_of(block) ==
    LET p == First(block, "N", 1)
        q == IF p = 0 THEN 0 ELSE First(block, "<", p + 1)
        r == IF q = 0 THEN 0 ELSE First(block, ">", q + 1)
    IN  IF r = 0 THEN Unknown ELSE strip(SubSeq(block, q + 1, r - 1))

\* index of the member_info_content tag that follows the </div> at d with only
\* white space between, when a later </div> closes it; 0 otherwise
TitleContent(t, d) ==
    IF d < 1 \/ d > Len(t) \/ t[d] # "/" THEN 0
    ELSE LET c == SkipSpace(t, d + 1)
         IN  IF c <= Len(t) /\ t[c] = "C" /\ First(t, "/", c + 1) # 0
             THEN c ELSE 0

\* re.search of the pattern of line 94: group 1 stripped, or the sentinel
title_of(block) ==
    LET p  == First(block, "I", 1)
        j  == IF p = 0 THEN 0 ELSE First(block, "J", p + 1)
        Ds == IF j = 0 THEN {}
              ELSE {d \in (j + 1)..Len(block) : TitleContent(block, d) # 0}
    IN  IF Ds = {} THEN Unknown
        ELSE LET c == TitleContent(block, Min(Ds))
             IN  strip(SubSeq(block, c + 1, First(block, "/", c + 1) - 1))

\* a slip: the address is read from the block's own text when it has one
email_of_block(block, es, email_index) ==
    IF findall_emails(block, 1) # <<>> THEN findall_emails(block, 1)[1]
    ELSE IF email_index < Len(es) THEN es[email_index + 1] ELSE Unknown

\* emails[email_index] if email_index < len(emails) else the sentinel,
\* for the block at 0-based position email_index
email_at(block, es, email_index) ==
    IF email_index < Len(es) THEN es[email_index + 1] ELSE Unknown

\* the loop of lines 88-106 over the blocks from 0-based position email_index on
RECURSIVE contacts_from(_, _, _)
contacts_from(blocks, es, email_index) ==
    IF email_index >= Len(blocks) THEN <<>>
    ELSE LET block == blocks[email_index + 1]
         IN  <<[name  |-> name_of(block),
                title |-> title_of(block),
                email |-> email_at(block, es, email_index)]>>
             \o contacts_from(blocks, es, email_index + 1)

extract_contacts(h, es) == contacts_from(teacher_blocks(h, 1), es, 0)

-----------------------------------------------------------------------------------------------------------------------------------------------------
(* The contacts table                                                      *)

\* largest AUTOINCREMENT value the model lets the table hand out
MaxSeq == 7

StoredEmails(rows) == {rows[i].email : i \in 1..Len(rows)}

NewRow(db, contact) ==
    [iid |-> db.seq + 1, name |-> contact.name, title |-> contact.title,
     email |-> contact.email]

\* a slip: plain INSERT into a table whose email column is not UNIQUE
insert_plain(db, contact) ==
    [rows |-> Append(db.rows, NewRow(db, contact)), seq |-> db.seq + 1]

\* a slip: INSERT OR REPLACE, the old row gives way to the new one
insert_or_replace(db, contact) ==
    [rows |-> Append(SelectSeq(db.rows, LAMBDA r : r.email # contact.email),
                     NewRow(db, contact)),
     seq  |-> db.seq + 1]

\* a slip: an upsert, the stored name and title follow the latest contact
insert_or_update(db, contact) ==
    IF contact.email \in StoredEmails(db.rows)
    THEN [rows |-> [i \in 1..Len(db.rows) |->
                      IF db.rows[i].email = contact.email
                      THEN [db.rows[i] EXCEPT !.name = contact.name,
                                              !.title = contact.title]
                      ELSE db.rows[i]],
          seq  |-> db.seq + 1]
    ELSE [rows |-> Append(db.rows, NewRow(db, contact)), seq |-> db.seq + 1]

\* a slip: the UNIQUE constraint is on the pair (name, email)
insert_unique_pair(db, contact) ==
    IF \E i \in 1..Len(db.rows) :
          db.rows[i].email = contact.email /\ db.rows[i].name = contact.name
    THEN [rows |-> db.rows, seq |-> db.seq + 1]
    ELSE [rows |-> Append(db.rows, NewRow(db, contact)), seq |-> db.seq + 1]

\* INSERT OR IGNORE INTO contacts (name, title, email) on db = [rows, seq]:
\* SQLite draws the next AUTOINCREMENT value, then drops the row when its
\* email is already there (email TEXT NOT NULL UNIQUE); the value drawn is
\* spent either way
insert_or_ignore(db, contact) ==
    IF contact.email \in StoredEmails(db.rows)
    THEN [rows |-> db.rows, seq |-> db.seq + 1]
    ELSE [rows |-> Append(db.rows, NewRow(db, contact)), seq |-> db.seq + 1]

\* a slip: the first contact whose email is already stored ends the batch
RECURSIVE save_until_conflict(_, _)
save_until_conflict(db, cs) ==
    IF cs = <<>> THEN db
    ELSE IF Head(cs).email \in StoredEmails(db.rows)
    THEN [rows |-> db.rows, seq |-> db.seq + 1]
    ELSE save_until_conflict(insert_or_ignore(db, Head(cs)), Tail(cs))

\* the loop of save_to_database followed by the commit
RECURSIVE save_to_database(_, _)
save_to_database(db, cs) ==
    IF cs = <<>> THEN db
    ELSE save_to_database(insert_or_ignore(db, Head(cs)), Tail(cs))

\* create_database: CREATE TABLE IF NOT EXISTS on a new file
create_database == [rows |-> <<>>, seq |-> 0]

\* display_contacts: every old row deleted, one row per contact inserted
display_contacts(cs) ==
    [i \in 1..Len(cs) |-> <<cs[i].name, cs[i].title, cs[i].email>>]

-----------------------------------------------------------------------------
(* The remote page                                                         *)

E1 == <<"a", "@", "n">>
E2 == <<"b", "@", "n">>

\* one directory entry: name link, title field, one more field, closing tags
Member(name, title, field) ==
    <<"T", "N", "<">> \o name \o <<">", "/", "I", "J", "/", "C">> \o title
    \o <<"/", "I", "/", "C">> \o field \o <<"/", " ", "/">>

PageA == Member(<<"a">>, <<"b">>, E1)
PageB == Member(<<"b">>, <<"a">>, E1)
PageC == Member(<<"a">>, <<"b">>, E1) \o Member(<<"b">>, <<"a">>, <<>>)
         \o Member(<<"a", "b">>, <<"b">>, <<>>)
PageD == Member(<<"a">>, <<"b">>, E2) \o <<" ">> \o Member(<<"b">>, <<"a">>, E1)
PageEmpty == <<>>

Pages == {PageA, PageB, PageC, PageD, PageEmpty}

\* what requests.get followed by raise_for_status can give: the text of the
\* page as it is at that moment, or a RequestException
Ok(text) == [status |-> "ok", text |-> text]
Failed == [status |-> "error", text |-> <<>>]
NoRequest == [status |-> "none", text |-> <<>>]
Responses == {Ok(p) : p \in Pages} \cup {Failed}

Urls == {"", "u"}

ErrNoUrl == "no url"
ErrFetch == "fetch failed"
ErrEmails == "Error fetching the URL"

-----------------------------------------------------------------------------
(* fetch_html and the button handler                                       *)

\* response.text, or "" after the error dialog
fetch_html(resp) == IF resp.status = "ok" THEN resp.text ELSE <<>>

\* a slip: the empty entry is not caught
never_empty(url) == FALSE

\* `not url`
IsEmpty(url) == url = ""

\* fetch_emails_from_ncut(url) at line 131, for each response its request can get
emails_for == [r \in Responses |-> fetch_emails_from_ncut(r)]

\* extract_contacts(html, emails) at line 132, for each pair of responses
contacts_for ==
    [r1 \in Responses |->
        [r2 \in Responses |-> extract_contacts(fetch_html(r1), emails_for[r2])]]

\* the part of fetch_and_display under `if html:` for the two responses
Pipeline(r1, r2) ==
    LET es == emails_for[r2]
        cs == contacts_for[r1][r2]
        db == save_to_database([rows |-> store, seq |-> sqlite_sequence], cs)
    IN  /\ db.seq <= MaxSeq
        /\ resp2' = r2
        /\ stdout' = IF r2.status = "ok" THEN "none" ELSE ErrEmails
        /\ emails' = es
        /\ contacts' = cs
        /\ store' = db.rows
        /\ sqlite_sequence' = db.seq
        /\ tree' = display_contacts(cs)
        /\ repeat' = (r1 = resp1 /\ r2 = resp2)

\* the run stops before the second request: nothing extracted, saved or shown
Stopped ==
    /\ resp2' = NoRequest
    /\ stdout' = "none"
    /\ emails' = <<>>
    /\ contacts' = <<>>
    /\ repeat' = FALSE
    /\ UNCHANGED <<store, sqlite_sequence, tree>>

fetch_and_display ==
    /\ pc = "mainloop"
    /\ before' = store
    /\ UNCHANGED <<url_entry, pc>>
    /\ IF IsEmpty(url_entry)
       THEN /\ messagebox' = ErrNoUrl
            /\ resp1' = NoRequest
            /\ html' = <<>>
            /\ Stopped
       ELSE \E r1 \in Responses :
              /\ resp1' = r1
              /\ html' = fetch_html(r1)
              /\ messagebox' = IF r1.status = "ok" THEN "none" ELSE ErrFetch
              /\ IF fetch_html(r1) = <<>>
                 THEN Stopped
                 ELSE \E r2 \in Responses : Pipeline(r1, r2)

\* the user edits the URL entry
SetUrl ==
    /\ pc = "mainloop"
    /\ \E u \in Urls : u # url_entry /\ url_entry' = u
    /\ UNCHANGED <<store, sqlite_sequence, tree, messagebox, stdout, resp1,
                   resp2, html, emails, contacts, before, repeat, pc>>

\* main(): the table is created, the window is built, the event loop starts
Init ==
    /\ pc = "mainloop"
    /\ url_entry = ""
    /\ store = create_database.rows
    /\ sqlite_sequence = create_database.seq
    /\ tree = <<>>
    /\ messagebox = "none"
    /\ stdout = "none"
    /\ resp1 = NoRequest
    /\ resp2 = NoRequest
    /\ html = <<>>
    /\ emails = <<>>
    /\ contacts = <<>>
    /\ before = <<>>
    /\ repeat = FALSE

Next == fetch_and_display \/ SetUrl

Spec == Init /\ [][Next]_vars

-----------------------------------------------------------------------------
(* fetch_emails_from_ncut alone, on every short text                       *)

\* longest text given to fetch_emails_from_ncut
MaxLen == 8

TextAlphabet == {"a", "n", "@", " "}

Texts == UNION {[1..k -> TextAlphabet] : k \in 0..MaxLen}

\* what the application's variables hold while one function is exercised
AppIdle ==
    /\ url_entry = "u"
    /\ store = <<>>
    /\ sqlite_sequence = 0
    /\ tree = <<>>
    /\ messagebox = "none"
    /\ stdout = "none"
    /\ before = <<>>
    /\ repeat = FALSE

InitEmails ==
    /\ pc = "call"
    /\ resp2 \in {Ok(t) : t \in Texts} \cup {Failed}
    /\ resp1 = NoRequest
    /\ html = <<>>
    /\ emails = <<>>
    /\ contacts = <<>>
    /\ AppIdle

call_fetch_emails ==
    /\ pc = "call"
    /\ pc' = "return"
    /\ emails' = fetch_emails_from_ncut(resp2)
    /\ UNCHANGED <<url_entry, store, sqlite_sequence, tree, messagebox, stdout,
                   resp1, resp2, html, contacts, before, repeat>>

SpecEmails == InitEmails /\ [][call_fetch_emails]_vars

-----------------------------------------------------------------------------
(* extract_contacts alone, on every short page and address list            *)

\* most fragments in a page given to extract_contacts
MaxFrags == 5

\* most addresses in the list given to extract_contacts
MaxEmails == 2

Fragments ==
    { <<"T">>,
      <<"N", "<", "a", ">">>,
      <<"I", "J", "/", "C", "b", "/">>,
      <<"/", " ", "/">>,
      E2 }

RECURSIVE Concat(_)
Concat(ss) == IF ss = <<>> THEN <<>> ELSE Head(ss) \o Concat(Tail(ss))

Htmls == {Concat(fs) : fs \in UNION {[1..k -> Fragments] : k \in 0..MaxFrags}}

EmailLists == UNION {[1..k -> {E1, E2}] : k \in 0..MaxEmails}

InitContacts ==
    /\ pc = "call"
    /\ html \in Htmls
    /\ emails \in EmailLists
    /\ contacts = <<>>
    /\ resp1 = NoRequest
    /\ resp2 = NoRequest
    /\ AppIdle

call_extract_contacts ==
    /\ pc = "call"
    /\ pc' = "return"
    /\ contacts' = extract_contacts(html, emails)
    /\ UNCHANGED <<url_entry, store, sqlite_sequence, tree, messagebox, stdout,
                   resp1, resp2, html, emails, before, repeat>>

SpecContacts == InitContacts /\ [][call_extract_contacts]_vars

-----------------------------------------------------------------------------
(* Properties of the application (Spec)                                    *)

IsPrefix(s, t) == Len(s) <= Len(t) /\ SubSeq(t, 1, Len(s)) = s

\* the last run reached save_to_database
Saved == resp2.status # "none"

\* indices of the contacts of the last run whose email was stored before it
Duplicates == {i \in 1..Len(contacts) : contacts[i].email \in StoredEmails(before)}

\* no two contacts of the last run share an email
DistinctEmails ==
    \A i, j \in 1..Len(contacts) : contacts[i].email = contacts[j].email => i = j

\* the rows of a table that hold the sentinel email, without their iid
SentinelRows(rows) ==
    {<<rows[i].name, rows[i].title>> : i \in {k \in 1..Len(rows) : rows[k].email = Unknown}}

\* name and title of the first contact of the last run with the sentinel email
FirstSentinel ==
    LET S == {i \in 1..Len(contacts) : contacts[i].email = Unknown}
    IN  IF S = {} THEN {} ELSE {<<contacts[Min(S)].name, contacts[Min(S)].title>>}

\* C1: in every reachable state the contacts table holds no two rows with the
\* same email.
C1_UniqueEmail ==
    \A i, j \in 1..Len(store) : store[i].email = store[j].email => i = j

\* C1 witness: a run offered an email that was already stored, to a table that
\* now holds several rows.
C1_Witness == Saved /\ Duplicates # {} /\ Len(store) >= 2

\* C2: a run that gets the content the run before it got (the same page from
\* every request of both runs) leaves the table as it was and produces the
\* same contacts, and so the same displayed rows.
C2_Idempotent ==
    [][ (/\ resp1.status = "ok"
         /\ resp2 \in {resp1, NoRequest}
         /\ resp1' = resp1
         /\ resp2' = resp2)
        => (store' = store /\ contacts' = contacts /\ tree' = tree) ]_vars

\* C2 witness: the second of two runs on the same three-entry page has ended
\* and added nothing.
C2_Witness ==
    /\ repeat
    /\ resp1.status = "ok"
    /\ resp2 = resp1
    /\ Len(contacts) = 3
    /\ store = before

\* C3 as claimed: when a request of the run failed, the run saved nothing: no
\* contacts were built and the table is as it was before the run.
C3_FailedFetchSavesNothing ==
    (resp1.status = "error" \/ resp2.status = "error")
        => (contacts = <<>> /\ store = before)

\* C4 as claimed: the text scanned for addresses is the text cut into blocks.
C4_SameContent ==
    Saved => (resp2.status = "ok" /\ resp2.text = html)

C7_EmptyUrl ==
    [][ (url_entry = "" /\ fetch_and_display)
        => (/\ messagebox' = ErrNoUrl
            /\ resp1' = NoRequest
            /\ resp2' = NoRequest
            /\ store' = store
            /\ tree' = tree) ]_vars

\* C7 witness: the error of the empty entry is up while the table and the
\* display still hold rows of an earlier run.
C7_Witness ==
    /\ url_entry = ""
    /\ messagebox = ErrNoUrl
    /\ resp1 = NoRequest
    /\ Len(store) >= 1
    /\ Len(tree) >= 1
    /\ store = before

\* C9: every step keeps the stored rows as they are, in place, and adds no
\* row for an email the table already held.
C9_AppendOnly ==
    [][ /\ IsPrefix(store, store')
        /\ \A k \in (Len(store) + 1)..Len(store') :
              store'[k].email \notin StoredEmails(store) ]_vars

\* C9 witness: a run offered a stored email under another name and title, and
\* the table is as it was.
C9_Witness ==
    /\ Saved
    /\ store = before
    /\ \E i \in 1..Len(contacts), j \in 1..Len(before) :
          /\ contacts[i].email = before[j].email
          /\ contacts[i].name # before[j].name
          /\ contacts[i].title # before[j].title

\* C10: the table holds at most one row with the sentinel email; a run keeps
\* the sentinel row it found, and otherwise stores only the first contact of
\* its batch that carries the sentinel.
C10_OneSentinelRow ==
    /\ Cardinality({i \in 1..Len(store) : store[i].email = Unknown}) <= 1
    /\ Saved => SentinelRows(store) =
                  IF SentinelRows(before) # {} THEN SentinelRows(before)
                  ELSE FirstSentinel

\* C10 witness: a run offered sentinel contacts under another name and title
\* than the stored sentinel row, which is still the only one.
C10_Witness ==
    /\ Saved
    /\ SentinelRows(before) # {}
    /\ SentinelRows(store) = SentinelRows(before)
    /\ \E i \in 1..Len(contacts) :
          /\ contacts[i].email = Unknown
          /\ \A r \in SentinelRows(before) :
                contacts[i].name # r[1] /\ contacts[i].title # r[2]

-----------------------------------------------------------------------------
(* Properties of fetch_emails_from_ncut (SpecEmails)                       *)

\* s comes strictly before t in the order of Python strings
StrictlyBefore(s, t) ==
    \E k \in 1..(Len(s) + 1) :
        /\ k <= Len(t)
        /\ \A i \in 1..(k - 1) : s[i] = t[i]
        /\ k = Len(s) + 1 \/ Ord(s[k]) < Ord(t[k])

\* e has the shape local-part@domain
IsAddress(e) ==
    /\ Len(e) >= 3
    /\ e[Len(e) - 1] = "@"
    /\ e[Len(e)] = "n"
    /\ \A i \in 1..(Len(e) - 2) : IsLocal(e[i])

Substrings(t) == {SubSeq(t, i, j) : i \in 1..Len(t), j \in 1..Len(t)}

\* first index of the run of local-part characters that ends just before k
RunStart(t, k) ==
    CHOOSE s \in 1..(k - 1) :
        /\ \A i \in s..(k - 1) : IsLocal(t[i])
        /\ s = 1 \/ ~IsLocal(t[s - 1])

\* where the match whose at sign is at k starts in a left-to-right scan that
\* never reuses a character, 0 when the scan finds no match there: the match
\* takes the whole run before the at sign, less a leading domain that closed
\* the match before it
RECURSIVE MatchStart(_, _)
MatchStart(t, k) ==
    IF ~(k >= 2 /\ k + 1 <= Len(t) /\ t[k] = "@" /\ t[k + 1] = "n" /\ IsLocal(t[k - 1]))
    THEN 0
    ELSE LET s == RunStart(t, k)
         IN  IF s >= 2 /\ t[s] = "n" /\ MatchStart(t, s - 1) # 0
             THEN IF s + 1 <= k - 1 THEN s + 1 ELSE 0
             ELSE s

Found(t) ==
    {SubSeq(t, MatchStart(t, k), k + 1) : k \in {i \in 1..Len(t) : MatchStart(t, i) # 0}}

\* C8: the list returned is strictly ascending, holds exactly the addresses a
\* scan of the text finds, each of them a substring of the address shape, and
\* is empty exactly when no substring of the text has that shape.
C8_SortedDistinctMatches ==
    pc = "return" =>
        /\ \A i, j \in 1..Len(emails) : i < j => StrictlyBefore(emails[i], emails[j])
        /\ Range(emails) = Found(resp2.text)
        /\ \A e \in Range(emails) : IsAddress(e) /\ e \in Substrings(resp2.text)
        /\ emails = <<>> <=> ~\E e \in Substrings(resp2.text) : IsAddress(e)

\* C8 witness: a text whose second address sorts before its first gave the two
\* in ascending order.
C8_Witness ==
    /\ pc = "return"
    /\ Len(emails) = 2
    /\ Len(findall_emails(resp2.text, 1)) = 2
    /\ findall_emails(resp2.text, 1)[1] = emails[2]

-----------------------------------------------------------------------------
(* Properties of extract_contacts (SpecContacts)                           *)

\* C6: one contact per matched block, in block order, the i-th with the i-th
\* address of the list, or the sentinel past its end, whatever the block holds.
C6_PositionalEmail ==
    pc = "return" =>
        LET blocks == teacher_blocks(html, 1)
        IN  /\ Len(contacts) = Len(blocks)
            /\ \A i \in 1..Len(contacts) :
                  /\ contacts[i].name = name_of(blocks[i])
                  /\ contacts[i].title = title_of(blocks[i])
                  /\ contacts[i].email =
                        IF i <= Len(emails) THEN emails[i] ELSE Unknown

\* C6 witness: two blocks and one address: the first block got the address of
\* the list although its own text holds another, the second got the sentinel.
C6_Witness ==
    /\ pc = "return"
    /\ Len(contacts) = 2
    /\ Len(emails) = 1
    /\ contacts[1].email = E1
    /\ findall_emails(teacher_blocks(html, 1)[1], 1) = <<E2>>
    /\ contacts[2].email = Unknown

====
